---- MODULE Spec2Model ----
(***************************************************************************)
(* Model of the forwarding job engine of the Telegram forward bot          *)
(* (src/forwarding.py ForwardingManager, src/bot.py command handlers,      *)
(* src/utils.py link resolver).                                            *)
(*                                                                         *)
(* Every handler invocation is a coroutine.  The code between two awaits   *)
(* runs atomically on the event loop, so each action below is one such     *)
(* block: it starts when an awaited call returns (or raises) and runs up   *)
(* to the next await.  pc names the await a task is suspended in.          *)
(* Handlers of different updates interleave at their awaits (the           *)
(* scheduling model of spec section 5).                                    *)
(***************************************************************************)
EXTENDS Integers, Sequences, FiniteSets, TLC

(***************************************************************************)
(* Bounds of the model.                                                    *)
(***************************************************************************)
\* remote calls that may fail in one run (mixed scenario)
MaxFaults == 3
\* clock seconds that may pass beyond second 0 (racing scenarios)
MaxTime == 1
\* request messages a user may send (mixed scenario)
MaxMessages == 2
\* segments of the path of a link (link scenario)
MaxPath == 3
\* replacement pairs of a request (replacement scenario)
MaxPairs == 2
\* failing remote calls of the escalation scenario
MaxEscalation == 12

(***************************************************************************)
(* Program constants.                                                      *)
(***************************************************************************)
MAX_SYNC_MESSAGES == 5000000
MAX_CONCURRENT_JOBS_PER_USER == 3
max_retries == 3
LongBreakEvery == 50
DecayEvery == 10
StatusEvery == 10
\* chat ids are wider than 32 bits: an integer is kept as sign and two
\* limbs, its value being (-1 if neg) * (hi * Base + lo)
Base == 1000000

Users == {1, 2}
Tasks == 1..(MAX_CONCURRENT_JOBS_PER_USER + 1)

(***************************************************************************)
(* Values.  An optional integer is a record: None has ok = FALSE.          *)
(***************************************************************************)
None == [ok |-> FALSE, v |-> 0]
Some(n) == [ok |-> TRUE, v |-> n]
\* Python truthiness of an Optional[int]: None and 0 are falsy
Truthy(x) == x.ok /\ x.v # 0

\* one segment of a link path, or one line of text: digits or other text
I(n) == [k |-> "i", n |-> n, s |-> ""]
S(s) == [k |-> "s", n |-> 0, s |-> s]
\* int(text): a value, or ValueError (ok = FALSE)
ParseInt(seg) == IF seg.k = "i" THEN Some(seg.n) ELSE None

Link(host, path) == [host |-> host, path |-> path]

Abs(n) == IF n < 0 THEN 0 - n ELSE n
Wide(n) == [neg |-> n < 0, hi |-> Abs(n) \div Base, lo |-> Abs(n) % Base]
NoneChat == [ok |-> FALSE, v |-> Wide(0)]
TruthyChat(x) == x.ok /\ x.v # Wide(0)
\* mutant: the id of the link is taken as the chat id
ChannelIdAsGiven(c) == Wide(c)
\* utils.py line 35 (chat_id = -1000000000000 - chat_id), for chat_id > 0
ChannelId(c) == [neg |-> TRUE, hi |-> Base + (c \div Base), lo |-> c % Base]

\* utils.extract_message_info_from_link: <<chat_id, message_id>>
extract_message_info_from_link(link) ==
  LET parts == link.path IN
  IF ~link.host THEN <<NoneChat, None>>
  ELSE IF Len(parts) < 2 THEN <<NoneChat, None>>
  ELSE IF parts[1] = S("c") THEN
    IF Len(parts) >= 3 THEN
      LET c == ParseInt(parts[2])
          m == ParseInt(parts[3]) IN
      IF ~c.ok \/ ~m.ok THEN <<NoneChat, None>>
      ELSE <<Some(IF c.v > 0 THEN ChannelId(c.v) ELSE Wide(c.v)), Some(m.v)>>
    ELSE <<NoneChat, None>>
  ELSE
    LET m == ParseInt(parts[Len(parts)]) IN
    IF m.ok THEN <<NoneChat, Some(m.v)>> ELSE <<NoneChat, None>>

(***************************************************************************)
(* Requests (utils.parse_forward_request output) used as inputs.           *)
(***************************************************************************)
CLink(chat, seq) == Link(TRUE, <<S("c"), I(chat), I(seq)>>)
AliasLink(name, seq) == Link(TRUE, <<S(name), I(seq)>>)
\* 'replacements' is a dict: its items as <<old, new>> in insertion order,
\* the keys distinct; a text is the sequence of its characters
Request(a, b, tg) ==
  [start_link |-> a, end_link |-> b, target_group |-> tg, replacements |-> <<>>]
Replacing(rd, pairs) == [rd EXCEPT !.replacements = pairs]

R_two == Request(CLink(7, 100), CLink(7, 101), I(-5))
R_rev == Request(CLink(7, 101), CLink(7, 100), I(-5))
R_one == Request(CLink(7, 100), CLink(7, 100), I(-5))
R_short == Request(Link(TRUE, <<S("c")>>), CLink(7, 100), I(-5))
R_nonint == Request(CLink(7, 100), Link(TRUE, <<S("c"), I(7), S("x")>>), I(-5))
R_chats == Request(CLink(7, 100), CLink(8, 101), I(-5))
R_target == Request(CLink(7, 100), CLink(7, 101), S("group"))
R_big == Request(CLink(7, 100), CLink(7, 100 + MAX_SYNC_MESSAGES), I(-5))
R_alias == Request(AliasLink("news", 100), AliasLink("news", 101), I(-5))
R_long == Request(CLink(7, 100), CLink(7, 100 + LongBreakEvery), I(-5))
\* a range every message of which can use up its max_retries attempts
R_esc ==
  Request(CLink(7, 100), CLink(7, 100 + (MaxEscalation \div max_retries) - 1), I(-5))

(***************************************************************************)
(* process_forward_request, lines 373-405: validation of the request.      *)
(***************************************************************************)
\* line 377: not all([...])
LinksInvalid(s, e) == ~(TruthyChat(s[1]) /\ Truthy(s[2]) /\ TruthyChat(e[1]) /\ Truthy(e[2]))
\* line 382
ChatsDiffer(s, e) == s[1] # e[1]
\* mutant: the pair as given
NormalizeRangeAsGiven(a, b) == <<a, b>>
\* lines 395-396: the pair reordered so that start <= end
NormalizeRange(a, b) == IF a > b THEN <<b, a>> ELSE <<a, b>>
\* line 398
TotalMessages(lo, hi) == hi - lo + 1
\* mutant: the length of the range is not checked
RangeTooLongUnchecked(total) == FALSE
\* line 400
RangeTooLong(total) == total > MAX_SYNC_MESSAGES

\* the verdict of the validation and the values it computes
Validate(rd) ==
  LET s == extract_message_info_from_link(rd.start_link)
      e == extract_message_info_from_link(rd.end_link)
      tg == ParseInt(rd.target_group)
      r == NormalizeRange(s[2].v, e[2].v)
      total == TotalMessages(r[1], r[2])
      vals == [start_chat_id |-> s[1].v, target_chat_id |-> tg.v,
               start_msg_id |-> r[1], end_msg_id |-> r[2], total_messages |-> total]
  IN IF LinksInvalid(s, e) THEN [verdict |-> "invalid_links"] @@ vals
     ELSE IF ChatsDiffer(s, e) THEN [verdict |-> "chat_mismatch"] @@ vals
     ELSE IF ~tg.ok THEN [verdict |-> "bad_target"] @@ vals
     ELSE IF RangeTooLong(total) THEN [verdict |-> "too_many"] @@ vals
     ELSE [verdict |-> "ok"] @@ vals

(***************************************************************************)
(* Scenarios: the environment of one run (who sends, how many remote       *)
(* calls fail, which source messages carry a topic marker, whether a       *)
(* refused /forward is recorded).  Chosen in Init and never changed.       *)
(***************************************************************************)
Scenario(n, ts, us, f, m, c, d, mk, rf, js, ks) ==
  [name |-> n, tasks |-> ts, users |-> us, faults |-> f,
   msgs |-> m, seconds |-> c, ticks |-> d, marked |-> mk, refusals |-> rf,
   jitters |-> js, kinds |-> ks]

\* the delays of lines 495-506, in tenths of a second
BaseDelay == 20
ExtraPerError == 5
ExtraCap == 50
JitterMin == 1
JitterMax == 5

\* the ways a remote call of forward_message may fail
ErrorKinds ==
  {"retry_after", "network", "not_found", "pin_rights", "bad_request", "other"}

ValidReqs == {R_two, R_rev, R_one, R_long}
InvalidReqs == {R_short, R_nonint, R_chats, R_target, R_big, R_alias}

\* the dicts of up to MaxPairs items with keys a, b and the empty text
Olds == {<<"a">>, <<"b">>, <<>>}
News == {<<"b">>, <<"c">>, <<>>}
Dicts ==
  {d \in UNION {[1..n -> Olds \X News] : n \in 0..MaxPairs} :
     \A i, k \in 1..Len(d) : d[i][1] = d[k][1] => i = k}
\* the texts of the source messages 200, 201, ...: every text of up to two
\* characters a, b, first as text messages, then as captions of photos
TextList == << <<>>, <<"a">>, <<"b">>, <<"a", "a">>, <<"a", "b">>,
               <<"b", "a">>, <<"b", "b">> >>
FirstText == 200
FirstMedia == FirstText + Len(TextList)
ReplReqs ==
  {Replacing(Request(CLink(7, m), CLink(7, m), I(-5)), d) :
     m \in FirstText..(FirstMedia + Len(TextList) - 1), d \in Dicts}

\* links of every shape: paths of up to MaxPath segments, each the letter
\* c, another word or a number, and one text that is no t.me link
Segments == {S("c"), S("x"), I(0), I(7), I(100)}
Paths == UNION {[1..n -> Segments] : n \in 0..MaxPath}
TestLinks == {Link(TRUE, p) : p \in Paths} \cup {Link(FALSE, <<S("c"), I(7), I(100)>>)}
LinkReqs == {Request(l, CLink(7, 100), I(-5)) : l \in TestLinks}

\* the requests the users of a scenario send
RequestsOf(name) ==
  CASE name = "retry" -> {R_two, R_rev}
    [] name = "inputs" -> InvalidReqs
    [] name = "long" -> {R_long}
    [] name = "links" -> LinkReqs
    [] name = "repl" -> ReplReqs
    [] name = "escalate" -> {R_esc}
    [] name = "cap" -> {R_one}
    [] OTHER -> {R_two}

BaseScenarios ==
  { \* one job, several failing remote calls
    Scenario("retry", {1}, {1}, MaxFaults, 1, 0, {0},
             {100, 101}, FALSE,
             {JitterMin}, ErrorKinds),
    \* two jobs of one user, commands racing with them
    Scenario("race", 1..2, {1}, 1, MaxMessages, MaxTime, 0..1,
             {}, FALSE,
             {JitterMin}, ErrorKinds),
    \* two users
    Scenario("users", 1..2, Users, 0, MaxMessages, 0, {0},
             {100}, FALSE,
             {JitterMin}, ErrorKinds),
    \* requests that do not pass validation
    Scenario("inputs", 1..2, {1}, 1, MaxMessages, MaxTime, 0..1,
             {}, FALSE,
             {JitterMin}, ErrorKinds),
    \* a range longer than one batch
    Scenario("long", {1}, {1}, 1, 1, 0, {0}, {}, TRUE,
             {JitterMin}, ErrorKinds),
    \* start links of every shape
    Scenario("links", {1}, {1}, 0, 1, 0, {0}, {}, FALSE,
             {JitterMin}, ErrorKinds),
    \* requests with replacement pairs
    Scenario("repl", {1}, {1}, 0, 1, 0, {0}, {}, FALSE,
             {JitterMin}, ErrorKinds),
    \* one job whose destination calls keep failing with network errors
    Scenario("escalate", {1}, {1}, MaxEscalation, 1, 0, {0}, {}, FALSE,
             JitterMin..JitterMax, {"network"}) }

\* one user, more /forward commands than the per-user cap, a second or
\* more apart
CapScenario ==
  Scenario("cap", Tasks, {1}, 0, 1, MAX_CONCURRENT_JOBS_PER_USER + 1, {1},
           {}, FALSE,
           {JitterMin}, ErrorKinds)

(***************************************************************************)
(* State.                                                                  *)
(***************************************************************************)
VARIABLES
  scn,                 \* the scenario of this run
  faults,              \* remote calls that may still fail
  now,                 \* int(time.time()) as last read
  next_message_id,     \* id of the next request message a user sends
  pending_requests,    \* bot.pending_requests: user -> request_info
  active_jobs,         \* ForwardingManager.active_jobs: user -> flag
  consecutive_errors,  \* ForwardingManager.consecutive_errors
  col_jobs,            \* collection forward_jobs: job id -> record
  col_stats,           \* collection forward_stats
  job,                 \* one record per /forward invocation (task)
  refused,             \* history: users a /forward of whom was refused
  col_topics,          \* collection forum_topics, in insertion order
  col_pinned_messages, \* collection pinned_messages
  topic_first_messages,\* ForwardingManager.topic_first_messages (its keys)
  create_calls,        \* history: the create_forum_topic calls issued
  pin_calls            \* history: the pin_chat_message calls issued

\* the state of topics and pins
topicVars == <<col_topics, col_pinned_messages, topic_first_messages,
               create_calls, pin_calls>>

vars == <<scn, faults, now, next_message_id, pending_requests, active_jobs,
          consecutive_errors, col_jobs, col_stats, job, refused, topicVars>>

NoJob == <<0, 0>>
\* the characters of the caption of a source message that replacement
\* pairs are matched against
SourceText(m) ==
  IF m - FirstText + 1 \in DOMAIN TextList THEN TextList[m - FirstText + 1]
  ELSE IF m - FirstMedia + 1 \in DOMAIN TextList THEN TextList[m - FirstMedia + 1]
  ELSE <<"h", "e", "l", "l", "o">>
\* line 160: msg.photo or msg.video or msg.document
HasMedia(m) == m - FirstMedia + 1 \in DOMAIN TextList

\* str.replace(old, new): every occurrence of old, left to right, none
\* overlapping; the empty old matches before every character and at the
\* end
RECURSIVE ReplaceAll(_, _, _)
ReplaceAll(text, old, new) ==
  IF old = <<>>
  THEN IF text = <<>> THEN new
       ELSE new \o <<Head(text)>> \o ReplaceAll(Tail(text), old, new)
  ELSE IF Len(text) < Len(old) THEN text
  ELSE IF SubSeq(text, 1, Len(old)) = old
  THEN new \o ReplaceAll(SubSeq(text, Len(old) + 1, Len(text)), old, new)
  ELSE <<Head(text)>> \o ReplaceAll(Tail(text), old, new)

\* utils.py lines 107-108: the loop over replacements.items()
RECURSIVE ReplaceEach(_, _)
ReplaceEach(text, pairs) ==
  IF pairs = <<>> THEN text
  ELSE ReplaceEach(ReplaceAll(text, pairs[1][1], pairs[1][2]), Tail(pairs))

Reverse(xs) == [i \in 1..Len(xs) |-> xs[Len(xs) + 1 - i]]
\* mutant: the pairs are applied last to first
apply_replacements_backwards(text, replacements) ==
  IF text = <<>> \/ replacements = <<>> THEN text
  ELSE ReplaceEach(text, Reverse(replacements))
\* utils.apply_replacements
apply_replacements(text, replacements) ==
  IF text = <<>> \/ replacements = <<>> THEN text
  ELSE ReplaceEach(text, replacements)

\* forward_message lines 146, 155-157: the caption that is sent
SentCaption(m, replacements) ==
  LET caption == SourceText(m) IN
  IF caption # <<>> /\ replacements # <<>>
  THEN apply_replacements(caption, replacements)
  ELSE caption

\* no topic name / no thread id (None)
NoTopic == ""
NoThread == <<0, 0>>

\* line 165: caption[:1024]
CaptionLimit == 1024
Truncate(caption) ==
  IF Len(caption) > CaptionLimit THEN SubSeq(caption, 1, CaptionLimit) ELSE caption

\* lines 159-189: the destination call of an attempt for message m with
\* the caption after the replacements; has_text is FALSE when no caption
\* or text is passed (caption=None, or forward_message)
DestinationCall(m, caption, thread_id) ==
  IF HasMedia(m)
  THEN [kind |-> "copy_message", has_text |-> caption # <<>>,
        text |-> Truncate(caption), message_thread_id |-> thread_id]
  ELSE IF caption # <<>>
  THEN [kind |-> "send_message", has_text |-> TRUE,
        text |-> caption, message_thread_id |-> thread_id]
  ELSE [kind |-> "forward_message", has_text |-> FALSE,
        text |-> <<>>, message_thread_id |-> thread_id]
NoCall == [kind |-> "none", has_text |-> FALSE, text |-> <<>>,
           message_thread_id |-> NoThread]
NoLink == Link(FALSE, <<>>)
NoRequest == Request(NoLink, NoLink, S(""))
NoPending == [present |-> FALSE, data |-> NoRequest, message_id |-> 0]

\* pc values at which a task is inside the message loop of lines 442-515
LoopPcs == {"fetch", "topic_create", "dispatch", "pin_sleep", "pinning",
            "rl_warn", "pin_warn", "backoff", "delay", "long_break",
            "break_sleep"}
\* pc values at which a task is inside forward_message (a message step)
StepPcs == {"fetch", "topic_create", "dispatch", "pin_sleep", "pinning",
            "rl_warn", "pin_warn", "backoff"}

\* locals of forward_cmd / process_forward_request / forward_message of a
\* task (rd and message_id are request_info of bot.py line 436; thread_id,
\* caption, wait_time and total_wait are those of the current call of
\* forward_message); the other fields are history (not program state):
\*   calls   the message ids handed to forward_message, in order
\*   exit    how the loop was left
\*   raised  where the exception that ended the task was raised
\*   cancelK the message in flight or last sent when /cancel was first
\*           accepted for the running job (kept when the range has a
\*           message after it)
\*   total_delay is the inter-message sleep of lines 503-506 (tenths of a
\*           second) while the task is in it
\*   dest    the destination call of the current attempt
\* and of the current or last call of forward_message:
\*   attempts       the fetch calls issued
\*   delivered      the destination calls that returned
\*   err            the outcome of the last remote call that raised
\*   slept          the seconds of the last sleep of a retry path
\*   create_failed  create_forum_topic raised in the current attempt
\*   pin_failed     pin_chat_message raised
\*   pin_found      pin_first_message_in_topic found a record and returned
\*   overlap        another call of pin_first_message_in_topic for the same
\*                  thread was in flight during this one
IdleJob ==
  [pc |-> "idle", user |-> 0, job_id |-> NoJob, rd |-> NoRequest, message_id |-> 0,
   v |-> Validate(NoRequest), idx |-> 0, successful |-> 0, failed |-> 0,
   retry_count |-> 0, thread_id |-> NoThread, caption |-> <<>>, wait_time |-> 0,
   total_delay |-> 0, dest |-> NoCall,
   total_wait |-> 0, calls |-> <<>>, exit |-> "none", raised |-> "none",
   cancelK |-> 0, attempts |-> 0, delivered |-> 0, err |-> "none", slept |-> 0,
   create_failed |-> FALSE, pin_failed |-> FALSE, pin_found |-> FALSE,
   overlap |-> FALSE]

\* active_jobs.get(user_id)  (missing key -> None -> falsy)
ActiveGet(u) == active_jobs[u] = "true"
\* active_jobs.get(user_id, True)  (missing key -> True)
ActiveGetDefaultTrue(u) == active_jobs[u] # "false"

InitWith(scenarios) ==
  /\ scn \in scenarios
  /\ faults = scn.faults
  /\ now = 0
  /\ next_message_id = 1
  /\ pending_requests = [u \in Users |-> NoPending]
  /\ active_jobs = [u \in Users |-> "absent"]
  /\ consecutive_errors = 0
  /\ col_jobs = <<>>
  /\ col_stats = {}
  /\ job = [t \in Tasks |-> IdleJob]
  /\ refused = {}
  /\ col_topics = <<>>
  /\ col_pinned_messages = {}
  /\ topic_first_messages = {}
  /\ create_calls = {}
  /\ pin_calls = {}

Init == InitWith(BaseScenarios)
InitCap == InitWith(BaseScenarios \cup {CapScenario})

\* a remote call raises: one of the failures the run may still see
Fault == faults > 0 /\ faults' = faults - 1
NoFault == faults' = faults

(***************************************************************************)
(* bot.handle_message, lines 340-400: a request message is parsed and      *)
(* stored as the user's pending request.                                   *)
(***************************************************************************)
HandleMessage(u, r) ==
  /\ next_message_id <= scn.msgs
  /\ u \in scn.users /\ r \in RequestsOf(scn.name)
  /\ pending_requests' = [pending_requests EXCEPT ![u] =
        [present |-> TRUE, data |-> r, message_id |-> next_message_id]]
  /\ next_message_id' = next_message_id + 1
  /\ UNCHANGED <<scn, refused, topicVars, faults, now, active_jobs, consecutive_errors, col_jobs,
                 col_stats, job>>

(***************************************************************************)
(* bot.cancel_cmd, lines 469-489.                                          *)
(***************************************************************************)
\* message id of the step a task is in or has last finished
CurrentMsg(j) == j.v.start_msg_id + j.idx - 1

\* mutant: /cancel clears the flag of every user
CancelledKeysAll(u) == Users
\* line 480: forwarding_manager.active_jobs[user_id] = False
CancelledKeys(u) == {u}

CancelCmd(u) ==
  /\ u \in scn.users
  /\ IF ActiveGet(u)
     THEN /\ active_jobs' = [v \in Users |->
               IF v \in CancelledKeys(u) THEN "false" ELSE active_jobs[v]]
          /\ job' = [t \in Tasks |->
               IF /\ job[t].user = u /\ job[t].pc \in LoopPcs /\ job[t].cancelK = 0
                  /\ CurrentMsg(job[t]) < job[t].v.end_msg_id
               THEN [job[t] EXCEPT !.cancelK = CurrentMsg(job[t])]
               ELSE job[t]]
          /\ UNCHANGED pending_requests
     ELSE /\ pending_requests[u].present
          /\ pending_requests' = [pending_requests EXCEPT ![u] = NoPending]
          /\ UNCHANGED <<active_jobs, job>>
  /\ UNCHANGED <<scn, refused, topicVars, faults, now, next_message_id, consecutive_errors,
                 col_jobs, col_stats>>

(***************************************************************************)
(* bot.forward_cmd, lines 402-452: the checks up to the first await.       *)
(* The command replies to the message of the pending request.              *)
(***************************************************************************)
\* mutant: the check of line 446 never finds an active job
HasActiveJobNever(u) == FALSE
\* line 446: if forwarding_manager.active_jobs.get(user_id)
HasActiveJob(u) == ActiveGet(u)

ForwardCmd(t, u) ==
  /\ t \in scn.tasks /\ u \in scn.users
  /\ job[t].pc = "idle"
  /\ \A t2 \in scn.tasks : t2 < t => job[t2].pc # "idle"
  /\ pending_requests[u].present
  /\ ~HasActiveJob(u)
  /\ job' = [job EXCEPT ![t] = [@ EXCEPT !.pc = "starting", !.user = u,
                                         !.rd = pending_requests[u].data,
                                         !.message_id = pending_requests[u].message_id]]
  /\ UNCHANGED <<scn, refused, topicVars, faults, now, next_message_id, pending_requests,
                 active_jobs, consecutive_errors, col_jobs, col_stats>>

\* bot.forward_cmd, lines 436-448: the command replies to the pending
\* request while the user's flag is set; the handler replies "already have
\* an active job" and returns.  Nothing of the program state is written;
\* the refusal is recorded in the history variable (the first per user).
ForwardRefused(u) ==
  /\ u \in scn.users
  /\ scn.refusals /\ u \notin refused
  /\ pending_requests[u].present
  /\ HasActiveJob(u)
  /\ refused' = refused \cup {u}
  /\ UNCHANGED <<scn, topicVars, faults, now, next_message_id,
                 pending_requests, active_jobs, consecutive_errors, col_jobs,
                 col_stats, job>>

(***************************************************************************)
(* ForwardingManager.process_forward_request, lines 356-586.               *)
(***************************************************************************)
\* line 360: job_id = f"{user_id}_{int(time.time())}"
JobId(u, time) == <<u, time>>

\* mutant: the record is written whether or not the _id exists (an upsert)
DuplicateKeyIgnored(col, id) == FALSE
\* insert_one on a collection keyed by _id raises DuplicateKeyError when
\* the _id exists (line 364)
DuplicateKey(col, id) == id \in DOMAIN col
insert_one(col, id, doc) == (id :> doc) @@ col

\* the terminal states of a job record (spec section 3)
Terminal == {"cancelled", "completed", "failed"}

\* line 530: the status finalization writes, whichever way the loop ended
FinalStatus(via) == "completed"

\* mutant: the range starts one message late
MsgAtShifted(start, idx) == start + idx
\* line 442: the idx-th element (from 1) of range(start_msg_id, end_msg_id + 1)
MsgAt(start, idx) == start + idx - 1

\* mutant: a failed message is not counted
CountStepSuccessOnly(success, successful, failed) ==
  IF success THEN <<successful + 1, failed>> ELSE <<successful, failed>>
\* lines 456-462: the counters after a message step
CountStep(success, successful, failed) ==
  IF success THEN <<successful + 1, failed>> ELSE <<successful, failed + 1>>

Max(a, b) == IF a > b THEN a ELSE b

\* the locals of forward_message, and the history of a call, before the call
ResetStep(j) ==
  [j EXCEPT !.retry_count = 0, !.thread_id = NoThread, !.caption = <<>>,
            !.wait_time = 0, !.total_delay = 0, !.dest = NoCall,
            !.total_wait = 0, !.attempts = 0, !.delivered = 0, !.err = "none",
            !.slept = 0, !.create_failed = FALSE, !.pin_failed = FALSE,
            !.pin_found = FALSE, !.overlap = FALSE]

\* lines 517-561: finalization up to the await of line 582
Finalize(t, j, via) ==
  /\ col_jobs' = [col_jobs EXCEPT ![j.job_id] =
        [@ EXCEPT !.status = FinalStatus(via), !.ended = TRUE,
                  !.stats = [successful |-> j.successful, failed |-> j.failed,
                             total |-> j.v.total_messages]]]
  /\ col_stats' = col_stats \cup
        {[user_id |-> j.user, by |-> t, successful |-> j.successful,
          failed |-> j.failed, total_messages |-> j.v.total_messages]}
  /\ consecutive_errors' = 0
  /\ job' = [job EXCEPT ![t] =
        [ResetStep(j) EXCEPT !.pc = "completing", !.exit = via]]

\* lines 442-454: the head of the loop: next element of the range, the
\* cancel check, the call of forward_message up to its first await
EnterLoop(t, j) ==
  IF j.idx = j.v.total_messages
  THEN Finalize(t, j, "exhausted")
  ELSE /\ job' = [job EXCEPT ![t] =
            IF ~ActiveGetDefaultTrue(j.user)
            THEN [ResetStep(j) EXCEPT !.idx = @ + 1, !.pc = "cancel_edit"]
            ELSE [ResetStep(j) EXCEPT
                    !.idx = @ + 1, !.pc = "fetch", !.attempts = 1,
                    !.calls = Append(@, MsgAt(j.v.start_msg_id, j.idx + 1))]]
       /\ UNCHANGED <<col_jobs, col_stats, consecutive_errors>>

Least(a, b) == IF a < b THEN a ELSE b
\* mutant: the escalation term is not capped
total_delay_uncapped(ce, jitter) == BaseDelay + ExtraPerError * ce + jitter
\* lines 495-504: total_delay (tenths of a second) for the counter ce and
\* the value drawn by random.uniform(0.1, 0.5)
total_delay(ce, jitter) ==
  BaseDelay + (IF ce > 0 THEN Least(ce * ExtraPerError, ExtraCap) ELSE 0) + jitter

\* forward_message has returned `success`: lines 456-506 up to the sleep;
\* ce is consecutive_errors as forward_message left it
StepDone(t, j, success, ce) ==
  LET c == CountStep(success, j.successful, j.failed)
      after == IF success /\ c[1] % DecayEvery = 0 THEN Max(0, ce - 2) ELSE ce IN
  /\ \E jitter \in scn.jitters :
        job' = [job EXCEPT ![t] =
          [j EXCEPT !.successful = c[1], !.failed = c[2], !.pc = "delay",
                    !.total_delay = total_delay(after, jitter)]]
  /\ consecutive_errors' = after

\* the exception leaves process_forward_request and is caught in
\* forward_cmd (bot.py lines 465-467)
Raise(t, j, at) ==
  job' = [job EXCEPT ![t] = [j EXCEPT !.pc = "error", !.raised = at]]

\* bot.py line 452 returns or raises; on return lines 359-405 run up to the
\* first await: the flag is set, the job record inserted, the request
\* validated.  d: whether the clock has moved to the next second.
StartReply(t, ok, d) ==
  /\ job[t].pc = "starting"
  /\ IF ~ok
     THEN /\ Fault /\ d = 0
          /\ Raise(t, job[t], "start")
          /\ UNCHANGED <<now, active_jobs, col_jobs>>
     ELSE /\ NoFault
          /\ d \in scn.ticks /\ now + d <= scn.seconds
          /\ now' = now + d
          /\ active_jobs' = [active_jobs EXCEPT ![job[t].user] = "true"]
          /\ LET id == JobId(job[t].user, now + d)
                 v == Validate(job[t].rd) IN
             IF DuplicateKey(col_jobs, id)
             THEN /\ Raise(t, job[t], IF col_jobs[id].status \in Terminal
                                   THEN "duplicate_final"
                                   ELSE "duplicate")
                  /\ UNCHANGED col_jobs
             ELSE /\ col_jobs' = insert_one(col_jobs, id,
                        [user_id |-> job[t].user, status |-> "started",
                         ended |-> FALSE,
                         stats |-> [successful |-> 0, failed |-> 0, total |-> 0]])
                  /\ job' = [job EXCEPT ![t] =
                        [@ EXCEPT !.job_id = id, !.v = v,
                                  !.pc = IF v.verdict = "ok" THEN "announcing"
                                         ELSE "rejecting"]]
  /\ UNCHANGED <<scn, refused, topicVars, next_message_id, pending_requests, consecutive_errors,
                 col_stats>>

\* process_forward_request returned normally: bot.py lines 461-463
ClearPending(u) ==
  pending_requests' = [pending_requests EXCEPT ![u] = NoPending]

\* the reply of lines 378/383/390/401 returns or raises
RejectReply(t, ok) ==
  /\ job[t].pc = "rejecting"
  /\ IF ok
     THEN /\ NoFault
          /\ active_jobs' = [active_jobs EXCEPT ![job[t].user] = "false"]
          /\ ClearPending(job[t].user)
          /\ job' = [job EXCEPT ![t].pc = "done"]
     ELSE /\ Fault
          /\ Raise(t, job[t], "reject")
          /\ UNCHANGED <<active_jobs, pending_requests>>
  /\ UNCHANGED <<scn, refused, topicVars, now, next_message_id, consecutive_errors, col_jobs,
                 col_stats>>

\* lines 407-440: the permission check (its failure is swallowed) and the
\* status message of line 422, which returns or raises
Announce(t, ok) ==
  /\ job[t].pc = "announcing"
  /\ IF ok
     THEN /\ NoFault
          \* line 440: the cache shared by all jobs is emptied
          /\ topic_first_messages' = {}
          /\ EnterLoop(t, [job[t] EXCEPT !.idx = 0, !.successful = 0, !.failed = 0])
     ELSE /\ Fault
          /\ Raise(t, job[t], "announce")
          /\ UNCHANGED <<col_jobs, col_stats, consecutive_errors,
                         topic_first_messages>>
  /\ UNCHANGED <<scn, refused, now, next_message_id, pending_requests,
                 active_jobs, col_topics, col_pinned_messages, create_calls,
                 pin_calls>>

\* line 444 returns (break, then finalization) or raises
CancelEdit(t, ok) ==
  /\ job[t].pc = "cancel_edit"
  /\ IF ok
     THEN /\ NoFault
          /\ Finalize(t, job[t], "cancel")
     ELSE /\ Fault
          /\ Raise(t, job[t], "cancel")
          /\ UNCHANGED <<col_jobs, col_stats, consecutive_errors>>
  /\ UNCHANGED <<scn, refused, topicVars, now, next_message_id, pending_requests, active_jobs>>

\* lines 468-506: the status update (failures swallowed) and the
\* inter-message sleep are over; lines 508-511 or the next loop head
Delay(t) ==
  /\ job[t].pc = "delay"
  /\ IF job[t].idx % LongBreakEvery = 0 /\ job[t].idx < job[t].v.total_messages
     THEN /\ job' = [job EXCEPT ![t].pc = "long_break"]
          /\ UNCHANGED <<col_jobs, col_stats, consecutive_errors>>
     ELSE EnterLoop(t, job[t])
  /\ UNCHANGED <<scn, refused, topicVars, faults, now, next_message_id,
                 pending_requests, active_jobs>>

\* line 511 returns or raises
LongBreak(t, ok) ==
  /\ job[t].pc = "long_break"
  /\ IF ok
     THEN NoFault /\ job' = [job EXCEPT ![t].pc = "break_sleep"]
     ELSE Fault /\ Raise(t, job[t], "break")
  /\ UNCHANGED <<scn, refused, topicVars, now, next_message_id, pending_requests, active_jobs,
                 consecutive_errors, col_jobs, col_stats>>

\* the sleep of line 515 is over
BreakSleep(t) ==
  /\ job[t].pc = "break_sleep"
  /\ EnterLoop(t, job[t])
  /\ UNCHANGED <<scn, refused, topicVars, faults, now, next_message_id,
                 pending_requests, active_jobs>>

\* line 582 returns (line 586, then bot.py 461-463) or raises (line 584)
Completing(t, ok) ==
  /\ job[t].pc = "completing"
  /\ IF ok
     THEN /\ NoFault
          /\ active_jobs' = [active_jobs EXCEPT ![job[t].user] = "false"]
          /\ ClearPending(job[t].user)
          /\ job' = [job EXCEPT ![t].pc = "done"]
     ELSE /\ Fault
          /\ job' = [job EXCEPT ![t].pc = "completing2"]
          /\ UNCHANGED <<active_jobs, pending_requests>>
  /\ UNCHANGED <<scn, refused, topicVars, now, next_message_id, consecutive_errors, col_jobs,
                 col_stats>>

\* line 584 returns (line 586, then bot.py 461-463) or raises
Completing2(t, ok) ==
  /\ job[t].pc = "completing2"
  /\ IF ok
     THEN /\ NoFault
          /\ active_jobs' = [active_jobs EXCEPT ![job[t].user] = "false"]
          /\ ClearPending(job[t].user)
          /\ job' = [job EXCEPT ![t].pc = "done"]
     ELSE /\ Fault
          /\ Raise(t, job[t], "completion")
          /\ UNCHANGED <<active_jobs, pending_requests>>
  /\ UNCHANGED <<scn, refused, topicVars, now, next_message_id, consecutive_errors, col_jobs,
                 col_stats>>

(***************************************************************************)
(* ForwardingManager.forward_message, lines 114-297.                       *)
(***************************************************************************)
\* a source message: its caption as lines; a line either holds the marker
\* "Topic:" followed by `text`, or plain text.  Messages of scn.marked
\* carry the marker on their second line.
Line(marker, text) == [marker |-> marker, text |-> text]
SourceCaption(m) ==
  IF m \in scn.marked
  THEN <<Line(FALSE, "photo"), Line(TRUE, "News")>>
  ELSE <<Line(FALSE, "hello")>>

\* utils.extract_topic_from_caption: the text after the first marker
Min(xs) == CHOOSE x \in xs : \A y \in xs : x <= y
extract_topic_from_caption(caption) ==
  LET hits == {i \in 1..Len(caption) : caption[i].marker} IN
  IF hits = {} THEN NoTopic ELSE caption[Min(hits)].text

\* mutant: the lookup of topics finds nothing
TopicHitsNever(chat, name) == {}
\* line 46: col_topics.find_one({chat_id, topic_name}): the matching
\* entries in insertion order
TopicHits(chat, name) ==
  {i \in 1..Len(col_topics) :
     col_topics[i].chat_id = chat /\ col_topics[i].topic_name = name}

\* mutant: the lookup of pinned_messages finds nothing
PinnedDocNever(chat, thread) == FALSE
\* lines 83-87 and 214-218: col_pinned_messages.find_one({chat_id,
\* thread_id, is_pinned: True}) finds a record
PinnedDoc(chat, thread) ==
  \E r \in col_pinned_messages : r.chat_id = chat /\ r.thread_id = thread

\* the ids the platform hands out: the thread a create_forum_topic call of
\* task t at message m made, the message a dispatch of task t for source
\* message m made
NewThread(t, m) == <<t, m>>
ForwardedId(t, m) == <<t, m>>

\* line 198: topic_key = f"{target_chat_id}_{thread_id}"
TopicKey(chat, thread) == <<chat, thread>>

FetchOutcomes == {"ok", "retry_after", "network", "not_found", "other"}
DispatchOutcomes ==
  {"ok", "retry_after", "network", "not_found", "pin_rights", "bad_request", "other"}
\* the errors the platform may clear by itself
Transient == {"retry_after", "network"}
\* the waits (seconds) a rate-limit error may carry
RetryAfterSecs == {3, 30}

\* lines 124-157: the fetch of the source message returns, or raises (any
\* error: forward_message returns False at once).  On return the topic is
\* looked up (lines 146-153, 40-56) and the destination call, with the
\* caption after the replacements (lines 155-157), or the
\* create_forum_topic call is issued.
Fetch(t, o) ==
  /\ job[t].pc = "fetch"
  /\ o \in FetchOutcomes
  /\ o = "ok" \/ o \in scn.kinds
  /\ IF o = "ok"
     THEN /\ NoFault
          /\ UNCHANGED consecutive_errors
          /\ LET m == CurrentMsg(job[t])
                 chat == job[t].v.target_chat_id
                 topic_name == extract_topic_from_caption(SourceCaption(m))
                 hits == TopicHits(chat, topic_name) IN
             IF topic_name = NoTopic
             THEN /\ job' = [job EXCEPT ![t] =
                       [@ EXCEPT !.pc = "dispatch", !.thread_id = NoThread,
                                 !.caption = SentCaption(m, job[t].rd.replacements),
                                 !.dest = DestinationCall(m,
                                    SentCaption(m, job[t].rd.replacements), NoThread)]]
                  /\ UNCHANGED create_calls
             ELSE IF hits # {}
             THEN /\ job' = [job EXCEPT ![t] =
                       [@ EXCEPT !.pc = "dispatch",
                                 !.thread_id = col_topics[Min(hits)].thread_id,
                                 !.caption = SentCaption(m, job[t].rd.replacements),
                                 !.dest = DestinationCall(m,
                                    SentCaption(m, job[t].rd.replacements),
                                    col_topics[Min(hits)].thread_id)]]
                  /\ UNCHANGED create_calls
             ELSE /\ job' = [job EXCEPT ![t] =
                       [@ EXCEPT !.pc = "topic_create", !.thread_id = NoThread]]
                  /\ create_calls' = create_calls \cup
                       {[chat_id |-> chat, topic_name |-> topic_name,
                         by |-> <<t, m, job[t].retry_count>>]}
     ELSE /\ Fault
          /\ StepDone(t, [job[t] EXCEPT !.err = o], FALSE, consecutive_errors)
          /\ UNCHANGED create_calls
  /\ UNCHANGED <<scn, refused, now, next_message_id, pending_requests,
                 active_jobs, col_jobs, col_stats, col_topics,
                 col_pinned_messages, topic_first_messages, pin_calls>>

\* mutant: a failed create_forum_topic call ends the attempt
TopicFailedPcBackoff == "backoff"
\* lines 73-75, 153-159: get_or_create_topic returns None and
\* forward_message goes on to the destination call
TopicFailedPc == "dispatch"

\* lines 58-75: create_forum_topic returns (the entry is inserted, the
\* thread id returned) or raises (None is returned); the destination call
\* is issued
TopicCreate(t, ok) ==
  /\ job[t].pc = "topic_create"
  /\ LET m == CurrentMsg(job[t])
         chat == job[t].v.target_chat_id
         topic_name == extract_topic_from_caption(SourceCaption(m)) IN
     IF ok
     THEN /\ NoFault
          /\ col_topics' = Append(col_topics,
                [chat_id |-> chat, topic_name |-> topic_name,
                 thread_id |-> NewThread(t, m)])
          /\ job' = [job EXCEPT ![t] =
                [@ EXCEPT !.pc = "dispatch", !.thread_id = NewThread(t, m),
                          !.caption = SentCaption(m, job[t].rd.replacements),
                          !.dest = DestinationCall(m,
                             SentCaption(m, job[t].rd.replacements), NewThread(t, m))]]
     ELSE /\ Fault
          /\ UNCHANGED col_topics
          /\ job' = [job EXCEPT ![t] =
                [@ EXCEPT !.pc = TopicFailedPc, !.thread_id = NoThread,
                          !.create_failed = TRUE,
                          !.caption = SentCaption(m, job[t].rd.replacements),
                          !.dest = DestinationCall(m,
                             SentCaption(m, job[t].rd.replacements), NoThread)]]
  /\ UNCHANGED <<scn, refused, now, next_message_id, pending_requests,
                 active_jobs, consecutive_errors, col_jobs, col_stats,
                 col_pinned_messages, topic_first_messages, create_calls,
                 pin_calls>>

\* the waits of the retry paths
RetryPause == 5
NetworkBase == 5
NetworkStep == 10
EscalationStep == 5
RateLimitMargin == 2

\* mutant: a missing source message is treated as any other bad request
MissingMessageNever(o) == FALSE
\* line 266: "Message to forward not found" / "Message to copy not found"
MissingMessage(o) == o = "not_found"

\* lines 159-287: the destination call returns or raises; n is the wait a
\* rate-limit error carries
Dispatch(t, o, n) ==
  /\ job[t].pc = "dispatch"
  /\ o \in DispatchOutcomes
  /\ o = "ok" \/ o \in scn.kinds
  /\ IF o = "retry_after" THEN n \in RetryAfterSecs ELSE n = 0
  /\ IF o = "ok" THEN NoFault ELSE Fault
  /\ LET j == [job[t] EXCEPT !.err = o] IN
     CASE o = "ok" ->
            \* lines 191-230
            LET m == CurrentMsg(job[t])
                chat == job[t].v.target_chat_id
                key == TopicKey(chat, job[t].thread_id)
                sent == [job[t] EXCEPT !.delivered = @ + 1] IN
            IF job[t].thread_id = NoThread
            THEN /\ StepDone(t, sent, TRUE, 0)
                 /\ UNCHANGED topic_first_messages
            ELSE IF key \notin topic_first_messages
            THEN \* lines 200-207: up to the sleep
                 /\ topic_first_messages' = topic_first_messages \cup {key}
                 /\ job' = [job EXCEPT ![t] = [sent EXCEPT !.pc = "pin_sleep"]]
                 /\ UNCHANGED consecutive_errors
            ELSE IF ~PinnedDoc(chat, job[t].thread_id)
            THEN \* lines 213-223: up to the sleep
                 /\ job' = [job EXCEPT ![t] = [sent EXCEPT !.pc = "pin_sleep"]]
                 /\ UNCHANGED <<consecutive_errors, topic_first_messages>>
            ELSE /\ StepDone(t, sent, TRUE, 0)
                 /\ UNCHANGED topic_first_messages
       [] o = "retry_after" ->
            \* lines 232-242
            /\ consecutive_errors' = consecutive_errors + 1
            /\ job' = [job EXCEPT ![t] =
                 [j EXCEPT !.pc = "rl_warn", !.wait_time = n,
                           !.total_wait = n + (consecutive_errors + 1) * EscalationStep
                                            + RateLimitMargin]]
            /\ UNCHANGED topic_first_messages
       [] o = "network" ->
            \* lines 253-259
            /\ consecutive_errors' = consecutive_errors + 1
            /\ job' = [job EXCEPT ![t] =
                 [j EXCEPT !.pc = "backoff",
                           !.slept = NetworkBase + j.retry_count * NetworkStep]]
            /\ UNCHANGED topic_first_messages
       [] MissingMessage(o) ->
            \* lines 263-267
            /\ StepDone(t, j, FALSE, consecutive_errors)
            /\ UNCHANGED topic_first_messages
       [] o = "pin_rights" ->
            \* lines 270-272
            /\ job' = [job EXCEPT ![t] = [j EXCEPT !.pc = "pin_warn"]]
            /\ UNCHANGED <<consecutive_errors, topic_first_messages>>
       [] OTHER ->
            \* lines 279-280, 283-286
            /\ job' = [job EXCEPT ![t] =
                 [j EXCEPT !.pc = "backoff", !.slept = RetryPause]]
            /\ UNCHANGED <<consecutive_errors, topic_first_messages>>
  /\ UNCHANGED <<scn, refused, now, next_message_id, pending_requests,
                 active_jobs, col_jobs, col_stats, col_topics,
                 col_pinned_messages, create_calls, pin_calls>>

\* mutant: a failed pin fails the message
PinResultStrict(pinned) == pinned
\* lines 207, 223, 228-230: the value of pin_first_message_in_topic is
\* dropped and forward_message returns True
PinResult(pinned) == TRUE

\* the other tasks awaiting pin_chat_message for the thread of task t
PinningOthers(t) ==
  {t2 \in Tasks \ {t} :
     /\ job[t2].pc = "pinning"
     /\ job[t2].v.target_chat_id = job[t].v.target_chat_id
     /\ job[t2].thread_id = job[t].thread_id}

\* the sleep of line 204 or 220 is over; pin_first_message_in_topic, lines
\* 80-92: a record exists (return True) or pin_chat_message is called
PinSleep(t) ==
  /\ job[t].pc = "pin_sleep"
  /\ LET chat == job[t].v.target_chat_id
         thread == job[t].thread_id IN
     IF PinnedDoc(chat, thread)
     THEN /\ StepDone(t, [job[t] EXCEPT !.pin_found = TRUE], PinResult(TRUE), 0)
          /\ UNCHANGED pin_calls
     ELSE /\ job' = [t2 \in Tasks |->
                IF t2 = t
                THEN [job[t] EXCEPT !.pc = "pinning",
                                    !.overlap = PinningOthers(t) # {}]
                ELSE IF t2 \in PinningOthers(t)
                THEN [job[t2] EXCEPT !.overlap = TRUE]
                ELSE job[t2]]
          /\ pin_calls' = pin_calls \cup
                {[chat_id |-> chat, thread_id |-> thread,
                  message_id |-> ForwardedId(t, CurrentMsg(job[t]))]}
          /\ UNCHANGED consecutive_errors
  /\ UNCHANGED <<scn, refused, faults, now, next_message_id, pending_requests,
                 active_jobs, col_jobs, col_stats, col_topics,
                 col_pinned_messages, topic_first_messages, create_calls>>

\* mutant: an error of pin_chat_message reaches the handlers of
\* forward_message
PinErrorEscapes == FALSE
\* lines 110-112: pin_first_message_in_topic catches every exception
PinErrorCaught == TRUE

\* lines 90-112: pin_chat_message returns (the record is inserted) or
\* raises (pin_first_message_in_topic returns False)
Pinning(t, ok) ==
  /\ job[t].pc = "pinning"
  /\ IF ok
     THEN /\ NoFault
          /\ col_pinned_messages' = col_pinned_messages \cup
                {[chat_id |-> job[t].v.target_chat_id,
                  thread_id |-> job[t].thread_id,
                  message_id |-> ForwardedId(t, CurrentMsg(job[t]))]}
          /\ StepDone(t, job[t], PinResult(TRUE), 0)
     ELSE /\ Fault
          /\ UNCHANGED col_pinned_messages
          /\ IF PinErrorCaught
             THEN StepDone(t, [job[t] EXCEPT !.pin_failed = TRUE], PinResult(FALSE), 0)
             ELSE /\ job' = [job EXCEPT ![t] =
                       [@ EXCEPT !.pc = "backoff", !.slept = RetryPause,
                                 !.pin_failed = TRUE]]
                  /\ UNCHANGED consecutive_errors
  /\ UNCHANGED <<scn, refused, now, next_message_id, pending_requests,
                 active_jobs, col_jobs, col_stats, col_topics,
                 topic_first_messages, create_calls, pin_calls>>

\* line 242 returns (sleep of line 247) or raises (lines 289-292)
RateLimitWarn(t, ok) ==
  /\ job[t].pc = "rl_warn"
  /\ IF ok THEN NoFault ELSE Fault
  /\ job' = [job EXCEPT ![t] =
        [@ EXCEPT !.pc = "backoff",
                  !.slept = IF ok THEN job[t].total_wait ELSE RetryPause]]
  /\ UNCHANGED <<scn, refused, topicVars, now, next_message_id,
                 pending_requests, active_jobs, consecutive_errors, col_jobs,
                 col_stats>>

\* line 272 returns (line 277: return True) or raises (lines 289-292)
PinWarn(t, ok) ==
  /\ job[t].pc = "pin_warn"
  /\ IF ok
     THEN /\ NoFault
          /\ StepDone(t, job[t], TRUE, consecutive_errors)
     ELSE /\ Fault
          /\ job' = [job EXCEPT ![t] =
                [@ EXCEPT !.pc = "backoff", !.slept = RetryPause]]
          /\ UNCHANGED consecutive_errors
  /\ UNCHANGED <<scn, refused, topicVars, now, next_message_id,
                 pending_requests, active_jobs, col_jobs, col_stats>>

\* mutant: one attempt more than max_retries
RetryAllowedOneMore(retry_count) == retry_count <= max_retries
\* line 122: while retry_count < self.max_retries
RetryAllowed(retry_count) == retry_count < max_retries

\* a sleep of a retry path is over (lines 247-251, 259-261, 279-281,
\* 285-287, 291-293): the next attempt, or lines 295-297
Backoff(t) ==
  /\ job[t].pc = "backoff"
  /\ LET j == [job[t] EXCEPT !.retry_count = @ + 1] IN
     IF RetryAllowed(j.retry_count)
     THEN /\ job' = [job EXCEPT ![t] =
                [j EXCEPT !.pc = "fetch", !.attempts = @ + 1,
                          !.create_failed = FALSE]]
          /\ UNCHANGED consecutive_errors
     ELSE StepDone(t, j, FALSE, consecutive_errors)
  /\ UNCHANGED <<scn, refused, topicVars, faults, now, next_message_id,
                 pending_requests, active_jobs, col_jobs, col_stats>>

(***************************************************************************)
(* Specification.                                                          *)
(***************************************************************************)
Next ==
  \/ \E u \in Users : \E r \in RequestsOf(scn.name) : HandleMessage(u, r)
  \/ \E u \in Users : CancelCmd(u)
  \/ \E t \in Tasks, u \in Users : ForwardCmd(t, u)
  \/ \E u \in Users : ForwardRefused(u)
  \/ \E t \in Tasks, ok \in BOOLEAN, d \in 0..1 : StartReply(t, ok, d)
  \/ \E t \in Tasks, ok \in BOOLEAN : RejectReply(t, ok)
  \/ \E t \in Tasks, ok \in BOOLEAN : Announce(t, ok)
  \/ \E t \in Tasks, ok \in BOOLEAN : CancelEdit(t, ok)
  \/ \E t \in Tasks, o \in FetchOutcomes : Fetch(t, o)
  \/ \E t \in Tasks, ok \in BOOLEAN : TopicCreate(t, ok)
  \/ \E t \in Tasks, o \in DispatchOutcomes, n \in RetryAfterSecs \cup {0} :
        Dispatch(t, o, n)
  \/ \E t \in Tasks : PinSleep(t)
  \/ \E t \in Tasks, ok \in BOOLEAN : Pinning(t, ok)
  \/ \E t \in Tasks, ok \in BOOLEAN : RateLimitWarn(t, ok)
  \/ \E t \in Tasks, ok \in BOOLEAN : PinWarn(t, ok)
  \/ \E t \in Tasks : Backoff(t)
  \/ \E t \in Tasks : Delay(t)
  \/ \E t \in Tasks, ok \in BOOLEAN : LongBreak(t, ok)
  \/ \E t \in Tasks : BreakSleep(t)
  \/ \E t \in Tasks, ok \in BOOLEAN : Completing(t, ok)
  \/ \E t \in Tasks, ok \in BOOLEAN : Completing2(t, ok)

Spec == Init /\ [][Next]_vars
\* the same program, with the scenario of the per-user cap added
SpecCap == InitCap /\ [][Next]_vars

(***************************************************************************)
(* Properties.                                                             *)
(***************************************************************************)
Record(t) == col_jobs[job[t].job_id]
HasRecord(t) == job[t].job_id \in DOMAIN col_jobs
Started(t) == job[t].pc \notin {"idle", "starting"}

\* C1: a job whose loop stops at the cancel check ends with the persisted
\* status cancelled (not completed).
C1_CancelledStatus ==
  \A t \in Tasks : job[t].exit = "cancel" => Record(t).status = "cancelled"

\* C2: once /cancel was accepted for a running job while message k was
\* in flight or the last one sent, the job hands no message with a
\* sequence number above k to forward_message.
C2_NoMessageAfterCancel ==
  \A t \in Tasks : job[t].cancelK # 0 =>
     \A i \in 1..Len(job[t].calls) : job[t].calls[i] <= job[t].cancelK

\* C3: whenever no message step is in progress, and in what finalization
\* writes, successful + failed is the number of sequence numbers handed to
\* forward_message.
C3_CountersMatchCalls ==
  /\ \A t \in Tasks : job[t].pc \notin StepPcs =>
        job[t].successful + job[t].failed = Len(job[t].calls)
  /\ \A r \in col_stats : r.successful + r.failed = Len(job[r.by].calls)
  /\ \A t \in Tasks : HasRecord(t) /\ Record(t).ended =>
        Record(t).stats.successful + Record(t).stats.failed = Len(job[t].calls)

\* a job that was cancelled after a message had failed
C3_Witness ==
  \E t \in Tasks : /\ job[t].exit = "cancel" /\ job[t].failed >= 1
                   /\ job[t].successful >= 1
                   /\ Cardinality({r \in col_stats : r.by = t}) = 1

\* C4: the sequence numbers handed to forward_message are start, start+1,
\* ... without gap or repetition and none lies outside [start, end]; the
\* next one is handed over only when the step of the previous one returned.
C4_AscendingNoGap ==
  \A t \in Tasks :
    /\ \A i \in 1..Len(job[t].calls) :
          /\ job[t].calls[i] = job[t].v.start_msg_id + i - 1
          /\ job[t].calls[i] <= job[t].v.end_msg_id
    /\ Len(job[t].calls) - (job[t].successful + job[t].failed)
          = IF job[t].pc \in StepPcs THEN 1 ELSE 0

\* a job that retried its first message and went on to the second
C4_Witness ==
  \E t \in Tasks : /\ Len(job[t].calls) = 2 /\ job[t].pc = "fetch"
                   /\ job[t].retry_count > 0

\* the cases of C5 and C6, read off the request
Unparseable(link) == extract_message_info_from_link(link) = <<NoneChat, None>>
RequestInvalid(rd) ==
  LET s == extract_message_info_from_link(rd.start_link)
      e == extract_message_info_from_link(rd.end_link) IN
  \/ Unparseable(rd.start_link) \/ Unparseable(rd.end_link)
  \/ s[1].ok /\ e[1].ok /\ s[1].v # e[1].v
  \/ rd.target_group.k # "i"
  \/ s[2].ok /\ e[2].ok /\ Abs(e[2].v - s[2].v) + 1 > MAX_SYNC_MESSAGES

\* C5: a request that fails validation (unparseable link, links of
\* different chats, non-numeric destination, range too long) has no
\* message handed to forward_message and never enters the loop.
C5_RejectedNoDispatch ==
  \A t \in Tasks : Started(t) /\ RequestInvalid(job[t].rd) =>
     job[t].calls = <<>> /\ job[t].pc \notin LoopPcs

\* a request with too long a range was rejected and the command returned
C5_Witness ==
  \E t \in Tasks : /\ job[t].pc = "done" /\ job[t].rd = R_big
                   /\ RequestInvalid(job[t].rd)

\* C6: a request that fails validation leaves no record in the job store.
C6_RejectedNoRecord ==
  \A t \in Tasks : Started(t) /\ RequestInvalid(job[t].rd) => ~HasRecord(t)

\* C7: an error raised in the loop outside the per-message containment
\* (the edit at the cancel check or at the 50-message break) leaves the
\* job record with the terminal status failed.
C7_EscapedErrorFailsJob ==
  \A t \in Tasks : job[t].raised \in {"cancel", "break"} =>
     Record(t).status = "failed"

\* C8: when the loop ended by exhaustion or cancellation, the record has a
\* terminal status and an end timestamp, there is exactly one statistics
\* record of the job, a rejected job has none, and when
\* process_forward_request is left the user's flag is cleared.
C8_Finalized ==
  \A t \in Tasks :
    /\ job[t].exit \in {"exhausted", "cancel"} =>
          /\ Record(t).status \in Terminal /\ Record(t).ended
          /\ Cardinality({r \in col_stats : r.by = t}) = 1
    /\ job[t].v.verdict # "ok" => {r \in col_stats : r.by = t} = {}
C8_ClearsActive ==
  \A t \in Tasks :
    /\ job[t].exit \in {"exhausted", "cancel"}
    /\ job[t].pc \in {"completing", "completing2"}
    /\ job'[t].pc \in {"done", "error"}
    => active_jobs'[job[t].user] = "false"
\* C8: finalization after exhaustion or cancellation is complete: terminal
\* status, end timestamp, exactly one statistics record, flag cleared.
C8_Finalization == [](C8_Finalized) /\ [][C8_ClearsActive]_vars

\* C9: once the status of a job record is cancelled, completed or failed,
\* no step changes it.
C9_Step ==
  \A id \in DOMAIN col_jobs : col_jobs[id].status \in Terminal =>
     id \in DOMAIN col_jobs' /\ col_jobs'[id].status = col_jobs[id].status
\* C9: terminal states are final: every step keeps the status of a record
\* that is cancelled, completed or failed.
C9_TerminalFinal == [][C9_Step]_vars

\* a later submission got the job id of a record in a terminal state
C9_Witness ==
  \E t \in Tasks : /\ job[t].raised = "duplicate_final"
                   /\ \E id \in DOMAIN col_jobs :
                        id[1] = job[t].user /\ col_jobs[id].status \in Terminal

\* C10: the jobs of one user that are in their message loop at the same
\* time never outnumber MAX_CONCURRENT_JOBS_PER_USER.
InLoop(u) == {t \in Tasks : job[t].user = u /\ job[t].pc \in LoopPcs}
C10_PerUserCap ==
  \A u \in Users : Cardinality(InLoop(u)) <= MAX_CONCURRENT_JOBS_PER_USER

\* C11: a /forward issued while the user's flag is set starts nothing: no
\* task of that user leaves forward_cmd's checks, and the refusal leaves
\* the job store, the flags, the pending requests, the statistics and
\* every job's locals and counters as they were.
C11_Step ==
  /\ \A u \in Users : active_jobs[u] = "true" =>
        \A t \in Tasks : job[t].pc = "idle" /\ job'[t].pc # "idle" =>
           job'[t].user # u
  /\ refused' # refused =>
        UNCHANGED <<col_jobs, col_stats, active_jobs, pending_requests, job>>
C11_RefusedForwardNoEffect == [][C11_Step]_vars

\* a /forward was refused while a job of the user had forwarded a message
\* and was still in its loop
C11_Witness ==
  \E u \in refused : \E t \in Tasks :
     /\ job[t].user = u /\ job[t].pc \in LoopPcs /\ job[t].successful >= 1
     /\ pending_requests[u].present /\ active_jobs[u] = "true"

\* the topic the message step of a task is routing into
TopicOf(t) == extract_topic_from_caption(SourceCaption(CurrentMsg(job[t])))
\* tasks that are inside get_or_create_topic for the same chat and topic
Creating(chat, name) ==
  {t \in Tasks : /\ job[t].pc = "topic_create"
                 /\ job[t].v.target_chat_id = chat /\ TopicOf(t) = name}

\* C12: get_or_create_topic is single-flight per (chat, topic): concurrent
\* calls for one key have at most one create_forum_topic call in flight,
\* at most one entry of the key is ever stored, and the calls return the
\* same thread id.
C12_SingleFlightTopic ==
  /\ \A c \in create_calls :
        Cardinality(Creating(c.chat_id, c.topic_name)) <= 1
  /\ \A i, k \in 1..Len(col_topics) :
        /\ col_topics[i].chat_id = col_topics[k].chat_id
        /\ col_topics[i].topic_name = col_topics[k].topic_name
        => i = k
  /\ \A t1, t2 \in Tasks :
        /\ job[t1].pc \in StepPcs /\ job[t2].pc \in StepPcs
        /\ job[t1].thread_id # NoThread /\ job[t2].thread_id # NoThread
        /\ job[t1].v.target_chat_id = job[t2].v.target_chat_id
        /\ TopicOf(t1) = TopicOf(t2)
        => job[t1].thread_id = job[t2].thread_id

\* C13: at most one record of pinned_messages is ever stored per (chat,
\* thread), whatever the interleaving of the jobs that route into the
\* thread.
C13_OnePinRecordPerThread ==
  \A r1, r2 \in col_pinned_messages :
     r1.chat_id = r2.chat_id /\ r1.thread_id = r2.thread_id => r1 = r2

\* the records of pinned_messages of a thread
PinRecords(chat, thread) ==
  {r \in col_pinned_messages : r.chat_id = chat /\ r.thread_id = thread}

\* C14: calls of pin_first_message_in_topic in sequence: a call that finds
\* a record of the thread issues no pin_chat_message call and leaves the
\* records as they are; a call that no other call overlapped and whose
\* pin_chat_message call returned leaves exactly one record of the thread,
\* the one of its own candidate (the first that was pinned).
C14_Step ==
  \A t \in Tasks :
    LET chat == job[t].v.target_chat_id
        thread == job[t].thread_id IN
    /\ job[t].pc = "pin_sleep" /\ job'[t].pc # "pin_sleep"
       /\ PinRecords(chat, thread) # {}
       => /\ pin_calls' = pin_calls
          /\ col_pinned_messages' = col_pinned_messages
    /\ job[t].pc = "pinning" /\ job'[t].pc # "pinning" /\ ~job[t].overlap
       => \/ col_pinned_messages' = col_pinned_messages
          \/ {r.message_id : r \in {x \in col_pinned_messages' :
                 x.chat_id = chat /\ x.thread_id = thread}}
               = {ForwardedId(t, CurrentMsg(job[t]))}
C14_SequentialPinIdempotent == [][C14_Step]_vars

\* a job routed a message into a thread that a job before it had pinned:
\* its call found the record of the other candidate and pinned nothing
C14_Witness ==
  \E t \in Tasks :
     /\ job[t].pin_found /\ job[t].pc = "delay"
     /\ \E r \in PinRecords(job[t].v.target_chat_id, job[t].thread_id) :
           r.message_id # ForwardedId(t, CurrentMsg(job[t]))
     /\ Cardinality(PinRecords(job[t].v.target_chat_id, job[t].thread_id)) = 1
     /\ Cardinality(pin_calls) = 1

\* C15: over the run of a job at most one pin_chat_message call is issued
\* per (chat, thread), also when the call fails and later messages of the
\* job are routed into the same thread.
C15_OnePinCallPerThread ==
  \A c1, c2 \in pin_calls :
     /\ c1.chat_id = c2.chat_id /\ c1.thread_id = c2.thread_id
     /\ c1.message_id[1] = c2.message_id[1]
     => c1 = c2

\* C16: a pin_chat_message call that raises after the destination call
\* returned does not fail the message: the step counts the message as
\* successful and not as failed, starts no further attempt, no message is
\* delivered twice by a step, and the job is at the inter-message sleep
\* of its loop.
C16_Delivered ==
  \A t \in Tasks :
    /\ job[t].delivered <= 1
    /\ job[t].pin_failed =>
          /\ job[t].pc = "delay" /\ job[t].delivered = 1
          /\ job[t].successful >= 1
C16_Step ==
  \A t \in Tasks : job[t].pc = "pinning" /\ job'[t].pin_failed =>
     /\ job'[t].successful = job[t].successful + 1
     /\ job'[t].failed = job[t].failed
     /\ job'[t].attempts = job[t].attempts
     /\ job'[t].calls = job[t].calls
C16_PinFailureSwallowed == [](C16_Delivered) /\ [][C16_Step]_vars

\* the pin of the first message failed on the first attempt of the step
\* and the message was counted successful
C16_Witness ==
  \E t \in Tasks : /\ job[t].pin_failed /\ job[t].pc = "delay"
                   /\ job[t].successful = 1 /\ job[t].failed = 0
                   /\ job[t].idx = 1 /\ pin_calls # {}
                   /\ col_pinned_messages = {}

\* C17: when create_forum_topic raises, no entry is stored, no thread id
\* is returned, and in the same attempt the destination call is issued
\* with no thread id (the default stream); when that call returns the
\* message is counted successful, with no pin.
C17_DefaultStream ==
  \A t \in Tasks : job[t].create_failed /\ job[t].pc \in StepPcs =>
     /\ job[t].thread_id = NoThread
     /\ job[t].pc \notin {"topic_create", "pin_sleep", "pinning"}
C17_Step ==
  \A t \in Tasks :
    /\ job[t].pc = "topic_create" /\ job'[t].create_failed =>
          /\ col_topics' = col_topics
          /\ job'[t].pc = "dispatch"
          /\ job'[t].attempts = job[t].attempts
          /\ job'[t].retry_count = job[t].retry_count
          /\ job'[t].failed = job[t].failed
    /\ job[t].create_failed /\ job'[t].delivered = job[t].delivered + 1 =>
          /\ job'[t].pc = "delay"
          /\ job'[t].successful = job[t].successful + 1
          /\ job'[t].failed = job[t].failed
C17_TopicFailureFallsBack == [](C17_DefaultStream) /\ [][C17_Step]_vars

\* create_forum_topic raised and the message was delivered in the first
\* attempt, with no entry stored
C17_Witness ==
  \E t \in Tasks : /\ job[t].create_failed /\ job[t].pc = "delay"
                   /\ job[t].delivered = 1 /\ job[t].attempts = 1
                   /\ job[t].successful = 1 /\ col_topics = <<>>
                   /\ create_calls # {}

\* C18: a message is attempted at most max_retries times; when the last
\* of these attempts has failed with an error that is retried, the step
\* counts exactly this message as failed and the job is at the
\* inter-message sleep of its loop, from where it takes the next message.
C18_Bounded == \A t \in Tasks : job[t].attempts <= max_retries
C18_Step ==
  \A t \in Tasks :
    /\ job[t].pc = "backoff" /\ job[t].attempts = max_retries
       /\ job'[t].pc # "backoff"
       => /\ job'[t].pc = "delay"
          /\ job'[t].failed = job[t].failed + 1
          /\ job'[t].successful = job[t].successful
          /\ job'[t].calls = job[t].calls
    /\ job[t].pc = "delay" /\ job[t].attempts = max_retries
       /\ job'[t].pc = "fetch"
       => job'[t].calls = Append(job[t].calls, CurrentMsg(job[t]) + 1)
C18_RetriesBounded == [](C18_Bounded) /\ [][C18_Step]_vars

\* the first message failed with three transient errors of the
\* destination call and the job fetches the second
C18_Witness ==
  \E t \in Tasks : /\ job[t].pc = "fetch" /\ Len(job[t].calls) = 2
                   /\ job[t].failed = 1 /\ job[t].successful = 0
                   /\ consecutive_errors = max_retries

\* C19: when a remote call of a message step (the fetch or the
\* destination call) raises a rate-limit or network error in an attempt
\* before the last, the step sleeps and retries the message: the message
\* is not counted failed by that error.
C19_Step ==
  \A t \in Tasks :
    /\ job[t].pc \in {"fetch", "dispatch"} /\ job'[t] # job[t]
    /\ faults' = faults - 1
    /\ job'[t].err \in Transient
    /\ job[t].attempts < max_retries
    => /\ job'[t].failed = job[t].failed
       /\ job'[t].pc \in {"rl_warn", "backoff"}
C19_TransientRetried == [][C19_Step]_vars

\* C20: after the destination call raised a rate-limit error carrying a
\* wait of N seconds, the sleep before the next attempt for the message
\* lasts at least N seconds, on every path through the handler.
C20_SleepsAtLeastN ==
  \A t \in Tasks : job[t].pc = "backoff" /\ job[t].err = "retry_after" =>
     job[t].slept >= job[t].wait_time

\* C21: the first error saying that the source message does not exist,
\* raised by the fetch or by the destination call, ends the step: the
\* message is counted failed once, no further attempt is made and no
\* remote call for it follows.
C21_NoCallAfter ==
  \A t \in Tasks : job[t].err = "not_found" => job[t].pc \notin StepPcs
C21_Step ==
  \A t \in Tasks :
    /\ job[t].pc \in {"fetch", "dispatch"} /\ job'[t].err = "not_found"
    /\ faults' = faults - 1 /\ job'[t] # job[t]
    => /\ job'[t].pc = "delay"
       /\ job'[t].failed = job[t].failed + 1
       /\ job'[t].successful = job[t].successful
       /\ job'[t].attempts = job[t].attempts
       /\ job'[t].retry_count = job[t].retry_count
C22_Step ==
  \A t \in Tasks :
    job'[t].successful = job[t].successful + 1 /\ consecutive_errors >= 2
    => consecutive_errors' > 0
C22_SuccessDecays == [][C22_Step]_vars

\* C23: every failed attempt of a message step increments
\* consecutive_errors: whichever error the fetch or the destination call
\* raises, the counter is higher after the step than before.
C23_Step ==
  \A t \in Tasks :
    /\ job[t].pc \in {"fetch", "dispatch"} /\ job'[t] # job[t]
    /\ faults' = faults - 1
    => consecutive_errors' > consecutive_errors
C23_FailureIncrements == [][C23_Step]_vars

\* C24: while a job is in its loop, its progress is written to its record
\* of the job store at least every StatusEvery messages: once that many
\* messages are processed the record shows progress above the initial 0.
C24_ProgressPersisted ==
  \A t \in Tasks :
    /\ job[t].pc \in LoopPcs /\ HasRecord(t)
    /\ job[t].successful + job[t].failed >= StatusEvery
    => Record(t).stats.successful + Record(t).stats.failed > 0

\* a well-formed alias link: t.me/<alias>/<sequence>
IsAliasLink(link) ==
  /\ link.host /\ Len(link.path) = 2
  /\ link.path[1].k = "s" /\ link.path[1] # S("c")
  /\ link.path[2].k = "i" /\ link.path[2].n > 0

\* C25: an alias link resolves to its sequence number with the chat left
\* unresolved, and a request whose two links are alias links of one chat
\* is not rejected as having invalid links: the job enters its loop.
C25_AliasAccepted ==
  \A t \in Tasks :
    /\ Started(t) /\ job[t].job_id # NoJob
    /\ IsAliasLink(job[t].rd.start_link) /\ IsAliasLink(job[t].rd.end_link)
    /\ job[t].rd.start_link.path[1] = job[t].rd.end_link.path[1]
    => /\ extract_message_info_from_link(job[t].rd.start_link)
            = <<NoneChat, Some(job[t].rd.start_link.path[2].n)>>
       /\ job[t].v.verdict # "invalid_links"

\* the links of the request of a started task
LinksOf(t) == {job[t].rd.start_link, job[t].rd.end_link}

\* C26: a link with the path c/<id>/<seq>, id a positive integer and seq
\* an integer, resolves to (-1000000000000 - id, seq); a link whose path
\* has fewer than two segments, or is c/<x> with no sequence segment, or
\* has a segment that is no integer where a number is read, resolves to
\* (None, None), never to a pair with one component set.
C26_LinkResolution ==
  \A t \in Tasks : Started(t) => \A l \in LinksOf(t) :
    LET p == l.path
        r == extract_message_info_from_link(l) IN
    /\ l.host /\ Len(p) = 3 /\ p[1] = S("c")
       /\ p[2].k = "i" /\ p[2].n > 0 /\ p[3].k = "i"
       => r = <<Some([neg |-> TRUE, hi |-> Base + p[2].n \div Base,
                      lo |-> p[2].n % Base]),
                Some(p[3].n)>>
    /\ \/ Len(p) < 2
       \/ Len(p) = 2 /\ p[1] = S("c")
       \/ Len(p) >= 3 /\ p[1] = S("c") /\ (p[2].k # "i" \/ p[3].k # "i")
       \/ Len(p) >= 2 /\ p[1] # S("c") /\ p[Len(p)].k # "i"
       => r = <<NoneChat, None>>

\* a request whose start link is c/7, with no sequence segment, is being
\* rejected
C26_Witness ==
  \E t \in Tasks :
     /\ job[t].pc = "rejecting"
     /\ job[t].rd.start_link = Link(TRUE, <<S("c"), I(7)>>)

\* the request with its two links exchanged
Swapped(rd) == [rd EXCEPT !.start_link = rd.end_link, !.end_link = rd.start_link]

\* C27: for a request that passed validation the range of the job has
\* start <= end and total_messages = end - start + 1 >= 1, the request
\* with its links exchanged has the same range, and a job that exhausted
\* its range has processed exactly the sequence numbers start..end.
C27_RangeNormalized ==
  \A t \in Tasks : job[t].v.verdict = "ok" =>
    LET v == job[t].v
        w == Validate(Swapped(job[t].rd)) IN
    /\ v.start_msg_id <= v.end_msg_id
    /\ v.total_messages = v.end_msg_id - v.start_msg_id + 1
    /\ v.total_messages >= 1
    /\ w.verdict = "ok"
    /\ w.start_msg_id = v.start_msg_id /\ w.end_msg_id = v.end_msg_id
    /\ job[t].exit = "exhausted" =>
          {job[t].calls[i] : i \in 1..Len(job[t].calls)}
             = v.start_msg_id..v.end_msg_id

\* a job whose request gave the later message first went through 100, 101
C27_Witness ==
  \E t \in Tasks : /\ job[t].rd = R_rev /\ job[t].exit = "exhausted"
                   /\ job[t].calls = <<100, 101>>


\* the left fold of replace-all over the first k pairs
RECURSIVE FoldLeft(_, _, _)
FoldLeft(text, pairs, k) ==
  IF k = 0 THEN text
  ELSE ReplaceAll(FoldLeft(text, pairs, k - 1), pairs[k][1], pairs[k][2])
ChainedPairs == << <<(<<"a">>), (<<"b">>)>>, <<(<<"b">>), (<<"c">>)>> >>

\* C28: the text handed to the destination call is the left fold of literal
\* replace-all over the request's pairs in insertion order (later pairs see
\* the text the earlier pairs rewrote: the pairs (a,b),(b,c) turn the text
\* a into c, not b); with no pairs or an empty text it is the source text
\* unchanged.
C28_LeftFold ==
  \A t \in Tasks : job[t].pc = "dispatch" =>
    LET text == SourceText(CurrentMsg(job[t]))
        pairs == job[t].rd.replacements IN
    /\ job[t].caption =
         IF text = <<>> \/ pairs = <<>> THEN text
         ELSE FoldLeft(text, pairs, Len(pairs))
    /\ (text = <<"a">> /\ pairs = ChainedPairs) => job[t].caption = <<"c">>
C28_Witness ==
  \E t \in Tasks : /\ job[t].pc = "dispatch"
                   /\ SourceText(CurrentMsg(job[t])) = <<"a">>
                   /\ job[t].rd.replacements = ChainedPairs
                   /\ job[t].caption = <<"c">>


\* C29: job ids are unique: two submissions that reach
\* process_forward_request, those of one user within one clock second
\* included, get distinct job ids, so the insert of the job record never
\* meets an existing record.
C29_JobIdsUnique ==
  \A t \in Tasks : job[t].pc = "starting" =>
    ~DuplicateKey(col_jobs, JobId(job[t].user, now))


\* the entries of (chat, name) in the topic store, oldest first
Entries(chat, name) ==
  {i \in DOMAIN col_topics :
     col_topics[i] = [chat_id |-> chat, topic_name |-> name,
                      thread_id |-> col_topics[i].thread_id]}
\* a step of task t through get_or_create_topic (lines 40-75) for a
\* message that names a topic
C30_Step(t) ==
  LET chat == job[t].v.target_chat_id
      name == TopicOf(t)
      stored == Entries(chat, name) IN
  /\ (job[t].pc = "fetch" /\ job'[t].pc \in {"dispatch", "topic_create"}
        /\ name # NoTopic) =>
       IF stored # {}
       THEN \* read-through: the stored handle, no call, no insert
            /\ job'[t].pc = "dispatch"
            /\ \A i \in stored : \A k \in stored : i <= k =>
                  job'[t].thread_id = col_topics[i].thread_id
            /\ create_calls' = create_calls
            /\ col_topics' = col_topics
       ELSE \* nothing stored: creation is attempted
            /\ job'[t].pc = "topic_create"
            /\ create_calls' # create_calls
            /\ col_topics' = col_topics
  /\ (job[t].pc = "topic_create" /\ job'[t].pc # "topic_create") =>
       IF job'[t].create_failed
       THEN \* a failed creation stores nothing
            col_topics' = col_topics
       ELSE \* write-once: one entry, with the handle that is returned
            /\ Len(col_topics') = Len(col_topics) + 1
            /\ Entries(chat, name)' = stored \cup {Len(col_topics')}
            /\ col_topics'[Len(col_topics')].thread_id = job'[t].thread_id

\* C30: a topic entry is write-once, read-through: once get_or_create_topic
\* has succeeded for (chat, label), a later call made after it for the same
\* key returns the stored handle, issues no create_forum_topic call and
\* inserts no entry; a failed creation stores nothing, so a later call
\* attempts the creation again.
C30_WriteOnceReadThrough == [][\A t \in Tasks : C30_Step(t)]_vars
\* the second message of a topic is about to be sent to the thread made
\* for the first, with one create call issued and one entry stored
C30_Witness ==
  \E t \in Tasks :
     /\ job[t].pc = "dispatch" /\ job[t].idx = 2
     /\ TopicOf(t) # NoTopic
     /\ job[t].thread_id = NewThread(t, MsgAt(job[t].v.start_msg_id, 1))
     /\ Cardinality(create_calls) = 1 /\ Len(col_topics) = 1


\* the inter-message sleep a task is in lies in the claimed range
C31_Range ==
  \A t \in Tasks : job[t].pc = "delay" =>
     job[t].total_delay >= 21 /\ job[t].total_delay <= 75
\* a step of task t into the inter-message sleep, or on to the next message
C31_Step(t) ==
  /\ (job[t].pc # "delay" /\ job'[t].pc = "delay") =>
       \E jitter \in JitterMin..JitterMax :
          job'[t].total_delay =
            BaseDelay + Least(ExtraPerError * consecutive_errors', ExtraCap) + jitter
  /\ (Len(job[t].calls) > 0 /\ Len(job'[t].calls) > Len(job[t].calls)) =>
       job[t].pc \in {"delay", "break_sleep"}
  /\ (job[t].pc = "break_sleep" /\ job'[t].pc # "break_sleep") =>
       job[t].idx % LongBreakEvery = 0

\* C31: after every message step the job sleeps the inter-message delay
\* before the next sequence number is started; the delay is the base delay
\* (2.0 s) plus 0.5 s per consecutive error, at most 5.0 s, plus the
\* jitter, so in tenths of a second it lies between 21 and 75 however
\* large the counter is.
C31_DelayBounded == [](C31_Range) /\ [][\A t \in Tasks : C31_Step(t)]_vars
\* the counter is past the cap and the longest delay is slept
C31_Witness ==
  \E t \in Tasks : /\ job[t].pc = "delay" /\ job[t].total_delay = 75
                   /\ consecutive_errors * ExtraPerError > ExtraCap


\* the caption after the request's pairs, as C28 states it
Rewritten(t) ==
  LET text == SourceText(CurrentMsg(job[t]))
      pairs == job[t].rd.replacements IN
  IF text = <<>> \/ pairs = <<>> THEN text ELSE FoldLeft(text, pairs, Len(pairs))
\* the caption or text the message has in the destination chat when the
\* call returns: copy_message without a caption keeps the original one,
\* forward_message keeps the message as it is
Arrives(t) ==
  IF job[t].dest.has_text THEN job[t].dest.text
  ELSE SourceText(CurrentMsg(job[t]))

\* C32: the destination call of an attempt is determined by the fetched
\* message: a message with photo, video or document is copied with the
\* rewritten caption (cut to 1024 characters); otherwise a message with a
\* non-empty text is sent as a new message with the rewritten text;
\* otherwise the message is forwarded as it is; the call goes to the
\* thread that was resolved.
C32_CallKind ==
  \A t \in Tasks : job[t].pc = "dispatch" =>
    LET m == CurrentMsg(job[t]) IN
    /\ job[t].dest.message_thread_id = job[t].thread_id
    /\ IF HasMedia(m)
       THEN /\ job[t].dest.kind = "copy_message"
            /\ Arrives(t) = Truncate(Rewritten(t))
       ELSE IF SourceText(m) # <<>>
       THEN /\ job[t].dest.kind = "send_message"
            /\ job[t].dest.text = Rewritten(t)
       ELSE job[t].dest.kind = "forward_message"


\* a step that counts the message of task t successful
C33_Step ==
  \A t \in Tasks :
     (job[t].pc \in StepPcs /\ job'[t].successful > job[t].successful) =>
        job'[t].delivered >= 1

C34_AtMostOnce == \A t \in Tasks : job[t].delivered <= 1
C34_Step ==
  \A t \in Tasks :
     \* once a destination call has returned, the next attempt the task
     \* makes is for the next message
     /\ (job[t].delivered >= 1
           /\ job'[t].pc \in {"fetch", "topic_create", "dispatch", "rl_warn",
                               "pin_warn", "backoff"}) =>
          /\ job'[t].idx = job[t].idx + 1
          /\ job'[t].delivered = 0
     \* the fetch raises: the step is over, no destination call is issued
     /\ (job[t].pc = "fetch" /\ job'[t].pc \notin {"fetch", "topic_create", "dispatch"}) =>
          /\ job'[t].pc = "delay"
          /\ job'[t].dest = job[t].dest
          /\ job'[t].delivered = 0
          /\ job[t].attempts = 1 => job'[t].dest = NoCall

Executing(u) ==
  {t \in Tasks : job[t].user = u /\ job[t].pc \notin {"idle", "done", "error"}}

\* C35: on every way out of process_forward_request (rejection,
\* completion, cancellation, an exception that escapes) the user's flag is
\* cleared: when no job of a user is executing, the flag is not set and a
\* new /forward of the user is accepted.
C35_NoLockOut ==
  \A u \in Users : Executing(u) = {} => ~HasActiveJob(u)


\* a step that is the /cancel of user u taking effect on a set flag
CancelStep(u) ==
  /\ active_jobs[u] = "true" /\ active_jobs'[u] = "false"
  /\ \A t \in Tasks : job'[t].pc = job[t].pc
C36_Step ==
  /\ \A u \in Users : CancelStep(u) =>
        \* only the entry of u changes; the jobs of the other users, their
        \* counters and the shared state that paces them stay as they are
        /\ \A v \in Users \ {u} : active_jobs'[v] = active_jobs[v]
        /\ \A t \in Tasks : job[t].user # u => job'[t] = job[t]
        /\ consecutive_errors' = consecutive_errors
        /\ col_jobs' = col_jobs /\ col_stats' = col_stats
  \* the entry of a user changes only in a step of that user: the user's
  \* /cancel or a job of the user
  /\ \A v \in Users : active_jobs'[v] # active_jobs[v] =>
        \/ CancelStep(v)
        \/ \E t \in Tasks : job[t].user = v /\ job'[t].pc # job[t].pc
  \* a job stops at the cancel check only on the flag of its own user
  /\ \A t \in Tasks :
        (job[t].pc # "cancel_edit" /\ job'[t].pc = "cancel_edit") =>
           active_jobs[job[t].user] = "false"

\* C36: cancellation is isolated per user: the /cancel of user A changes
\* only A's entry of the active set and leaves the jobs of any other user
\* B, their counters and their pace as they are, in every interleaving.
C36_CancelIsolated == [][C36_Step]_vars
\* user 1 has cancelled a running job while a job of user 2 is in its loop
C36_Witness ==
  \E t1, t2 \in Tasks :
     /\ job[t1].user = 1 /\ job[t1].pc \in StepPcs /\ job[t1].cancelK # 0
     /\ active_jobs[1] = "false"
     /\ job[t2].user = 2 /\ job[t2].pc \in StepPcs /\ active_jobs[2] = "true"


\* a step in which task t leaves its loop and finalizes while another job
\* is in its loop
C37_Step ==
  \A t \in Tasks :
     (/\ job[t].pc \in LoopPcs \cup {"cancel_edit"} /\ job'[t].pc = "completing"
      /\ \E t2 \in Tasks \ {t} : job[t2].pc \in LoopPcs) =>
        consecutive_errors' >= consecutive_errors

\* C37: the shared consecutive-error counter a running job sees changes
\* only through send outcomes: the finalization of one job never lowers
\* or resets the escalation another running job has accumulated.
C37_FinalizeKeepsCounter == [][C37_Step]_vars


\* a step in which forward_cmd of task t returns after
\* process_forward_request returned
C38_Step ==
  \A t \in Tasks :
     (/\ job[t].pc # "done" /\ job'[t].pc = "done"
      /\ pending_requests[job[t].user].present
      /\ pending_requests[job[t].user].message_id # job[t].message_id) =>
        pending_requests'[job[t].user] = pending_requests[job[t].user]

\* C38: a request the user sends while an earlier job of the user is
\* running is kept: the end of the earlier job removes only the pending
\* request the job was started from, and the newer one can still be
\* started with /forward.
C38_NewerRequestKept == [][C38_Step]_vars

====
